---------------------------- MODULE Spec2Model ----------------------------
(***************************************************************************)
(* A model of PyHammer's main procedure (src/pyhammer.py, main, lines      *)
(* 12-166): the batch loop over the manifest, the calls it makes on the    *)
(* Spectrum engine, the accept and reject files, the rejection narrative   *)
(* and the hand-off to Eyecheck.                                           *)
(*                                                                         *)
(* Text is modelled as a sequence of pieces.  A manifest line is a         *)
(* sequence of one-character strings; literal text that holds no line      *)
(* break, comma or blank of interest is kept as one piece.                 *)
(* The Spectrum engine and Eyecheck live outside src/: every engine call   *)
(* returns a value chosen from a small set, and the call is recorded in    *)
(* the variable trace.                                                     *)
(*                                                                         *)
(* Spec is one run of main.  SpecOneLine is one run on a manifest of at     *)
(* most one line, with more S/N floors, manifest names and engine answers. *)
(* SpecParse is the parsing of one manifest line, SpecTwoRuns is main run  *)
(* twice on the same input, and SpecEntry is the code that runs before     *)
(* main: the command-line options of __main__, the prompts of startCmd and *)
(* the settings window of StartGUI with its screens, shown one at a time.  *)
(***************************************************************************)
EXTENDS Integers, Sequences, FiniteSets, TLC

(***************************************************************************)
(* Bounds and input sets                                                   *)
(***************************************************************************)
\* Longest manifest, in lines.
MaxLines == 2

\* Longest path and longest format tag, in characters, of the lines the
\* parser model is given.
MaxPathLen == 3
MaxTagLen == 2

\* Most command-line options of one invocation, and most changes the user
\* makes in the settings window before pressing Start.
MaxArgs == 3
MaxEdits == 2

\* The manifest lines the batch model draws from: a whitespace form, a comma
\* form, and a blank line.
SampleLines == { <<"a", " ", "o">>, <<"b", ",", "o">>, <<>> }

\* Messages a failed readFile returns; the second holds a line break.
FailMessages == { <<"no file">>, <<"bad", "\n", "format">> }

\* Values calcSN returns, and the values options['sncut'] takes: None is the
\* empty sequence and a floor x is <<x>>.
SNVals == {2, 5}
None == <<>>
SNCuts == {None, <<5>>}

\* Values findRadialVelocity returns.
Shifts == {-30, 12}

\* Values guessSpecType leaves in spec.guess; metal is in hundredths.
Guesses == { [specType |-> 4, subType |-> 2, metal |-> 0],
             [specType |-> 6, subType |-> 5, metal |-> -52] }

\* Guesses at the ends of the list of letters and beyond them.
EdgeGuesses == { [specType |-> t, subType |-> 0, metal |-> 0] : t \in {0, 7, 8, -1, -9} }

\* spec.guess of a Spectrum on which guessSpecType has not run.
NoGuess == [specType |-> -100, subType |-> -100, metal |-> 0]

\* Names of the manifest file.  A name is <<directory, base name pieces>>.
UserInfile == << "work/", <<"list.txt">> >>
TempInfile == << "work/", <<"temp_input_", "1.txt">> >>

(***************************************************************************)
(* Text helpers (Python str methods used by main)                          *)
(***************************************************************************)
IsSpace(c) == c \in {" ", "\t", "\n"}

RECURSIVE LStrip(_)
LStrip(s) == IF s = <<>> THEN s
             ELSE IF IsSpace(Head(s)) THEN LStrip(Tail(s)) ELSE s

RECURSIVE RStrip(_)
RStrip(s) == IF s = <<>> THEN s
             ELSE IF IsSpace(s[Len(s)]) THEN RStrip(SubSeq(s, 1, Len(s) - 1))
             ELSE s

\* str.strip()
Strip(s) == RStrip(LStrip(s))

\* str.find(c): 0-based index of the first c, -1 when absent
Find(s, c) ==
    LET at == { k \in 1..Len(s) : s[k] = c }
    IN  IF at = {} THEN -1
        ELSE (CHOOSE k \in at : \A m \in at : k <= m) - 1

\* str.replace(a, b) for a one-character a and b
Replace(s, a, b) == [ k \in 1..Len(s) |-> IF s[k] = a THEN b ELSE s[k] ]

\* str.replace(a, ''): every piece equal to a is dropped
RECURSIVE Remove(_, _)
Remove(s, a) == IF s = <<>> THEN <<>>
                ELSE IF Head(s) = a THEN Remove(Tail(s), a)
                ELSE <<Head(s)>> \o Remove(Tail(s), a)

\* str.split(): the maximal runs of non-blank characters
RECURSIVE SplitAcc(_, _, _)
SplitAcc(s, cur, acc) ==
    IF s = <<>> THEN (IF cur = <<>> THEN acc ELSE Append(acc, cur))
    ELSE IF IsSpace(Head(s))
         THEN SplitAcc(Tail(s), <<>>, IF cur = <<>> THEN acc ELSE Append(acc, cur))
         ELSE SplitAcc(Tail(s), Append(cur, Head(s)), acc)

Split(s) == SplitAcc(s, <<>>, <<>>)

\* sep.join(toks)
RECURSIVE Join(_, _)
Join(sep, toks) ==
    IF toks = <<>> THEN <<>>
    ELSE IF Len(toks) = 1 THEN toks[1]
    ELSE toks[1] \o <<sep>> \o Join(sep, Tail(toks))

\* Mutant of RSplit1: str.split(sep, 1), which cuts at the first sep.
SplitFirst(s, sep) ==
    LET at == { k \in 1..Len(s) : s[k] = sep }
    IN  IF at = {} THEN << s >>
        ELSE LET k == CHOOSE k \in at : \A m \in at : k <= m
             IN  << SubSeq(s, 1, k - 1), SubSeq(s, k + 1, Len(s)) >>

\* str.rsplit(sep, 1): cut at the last sep, or the whole string in a list
RSplit1(s, sep) ==
    LET at == { k \in 1..Len(s) : s[k] = sep }
    IN  IF at = {} THEN << s >>
        ELSE LET k == CHOOSE k \in at : \A m \in at : m <= k
             IN  << SubSeq(s, 1, k - 1), SubSeq(s, k + 1, Len(s)) >>

\* str.count('\n')
RECURSIVE CountNL(_)
CountNL(s) == IF s = <<>> THEN 0
              ELSE (IF Head(s) = "\n" THEN 1 ELSE 0) + CountNL(Tail(s))

\* str(x) of a number
Str(x) == ToString(x)

\* Lines 69-71: what the right-hand side of "fname, ftype = ..." evaluates to.
ParseLine(line) ==
    LET stripped == Strip(line)
        spaced   == IF Find(stripped, ",") > 0
                    THEN Replace(stripped, ",", " ") ELSE stripped
    IN  RSplit1(Join(" ", Split(spaced)), " ")

(***************************************************************************)
(* What main writes                                                        *)
(***************************************************************************)
\* Line 60 and line 61: the header lines.
OutHeader == << "#Filename,Radial Velocity (km/s),Guessed Spectral Type,Guessed Metallicity,User Spectral Type,User Metallicity" >>
RejectHeader == << "#Filename,File Type,Spectra S/N" >>

\* Line 132: the list indexed by spec.guess['specType'].
Letters == << "O", "B", "A", "F", "G", "K", "M", "L" >>

\* Python list indexing: a negative index counts from the end, any index
\* outside -8..7 raises IndexError.
IndexOK(idx) == -Len(Letters) <= idx /\ idx < Len(Letters)
LetterSpt(idx) == IF idx >= 0 THEN Letters[idx + 1] ELSE Letters[idx + Len(Letters) + 1]

\* '{:+2.1f}'.format(metal), metal in hundredths and no tie among the inputs:
\* an explicit sign, then the magnitude rounded to one decimal.
MetalFmt(m) ==
    LET a == IF m < 0 THEN -m ELSE m
        t == (a + 5) \div 10
    IN  << IF m < 0 THEN "-" ELSE "+", Str(t \div 10), ".", Str(t % 10) >>

\* Lines 135-136: the accept row, as its comma-separated fields.
AcceptRow(f, s, g) ==
    << f, Str(s), << LetterSpt(g.specType), Str(g.subType) >>, MetalFmt(g.metal), "nan", "nan" >>

\* Mutants of the reject rows: the S/N field of one is written in the other.
RejectRowNAasNumber(f, t) == << f, t, Str(0) >>
RejectRowSNasNA(f, t, v) == << f, t, "N/A" >>

\* Line 83 and line 95: the reject rows.
RejectRowNA(f, t) == << f, t, "N/A" >>
RejectRowSN(f, t, v) == << f, t, Str(v) >>

\* Mutant of LoadReason: the line breaks of the message are kept.
LoadReasonKeepsBreaks(f, msg) ==
    <<"FILE: ">> \o f \o <<"  REASON: ">> \o msg \o <<"\n">>

\* Line 84 and line 96: the entries added to rejectMessage.
LoadReason(f, msg) ==
    <<"FILE: ">> \o f \o <<"  REASON: ">> \o Remove(msg, "\n") \o <<"\n">>
SNReason(f, v, cut) ==
    <<"FILE: ">> \o f \o <<"  REASON: S/N = ", Str(v), " < ", Str(cut[1]), "\n">>

\* Mutant of BelowFloor: a value equal to the floor is rejected too.
BelowOrAtFloor(v, cut) == v <= cut[1]

\* Line 94: the quality gate.
BelowFloor(v, cut) == v < cut[1]

\* Lines 147-148: the text put in front of rejectMessage.
Prepended(msg) ==
    << "The following is a list of rejected spectra", "\n",
       "along with the reason for its rejection.", "\n", "\n" >> \o msg

\* Mutant of AllRejected: the three line breaks of the prepended text are
\* counted as two.
AllRejectedOffByOne(msg, idx) == CountNL(msg) = idx + 3

\* Line 154: the all-rejected test.
AllRejected(msg, idx) == CountNL(msg) = idx + 4

\* Lines 157 and 165: os.path.basename(options['infile'])[:11] == 'temp_input_'
IsTempInput(name) == Len(name[2]) > 0 /\ name[2][1] = "temp_input_"

(***************************************************************************)
(* State                                                                   *)
(***************************************************************************)
VARIABLES
    options,        \* the options dict main was called with
    manifest,       \* [exists, lines]: the file options['infile'] names
    outfile,        \* [exists, lines]: the file options['outfile'] names
    rejectfile,     \* [exists, lines]: the file options['rejectfile'] names
    handles,        \* [infile, outfile, rejectfile]: "none", "open" or "closed"
    pc,             \* where main is
    i,              \* the loop index of line 67; -1 before the first line
    fname, ftype,   \* line 71
    snVal,          \* line 93
    shift,          \* line 110
    rejectMessage,  \* line 65
    guess,          \* spec.guess, the engine's current Guess
    trace,          \* the calls main has made, oldest first
    entry,          \* the entry controller: command line, prompts, settings window
    prior           \* what an earlier run of main on the same input left

vars == << options, manifest, outfile, rejectfile, handles, pc, i, fname, ftype,
           snVal, shift, rejectMessage, guess, trace, entry, prior >>

Ev(op, k, v) == [op |-> op, i |-> k, val |-> v]

\* Manifests of at most n lines.
RECURSIVE Manifests(_)
Manifests(n) ==
    IF n = 0 THEN { <<>> }
    ELSE LET shorter == Manifests(n - 1)
         IN  shorter \cup { Append(m, l) : m \in { x \in shorter : Len(x) = n - 1 }, l \in SampleLines }

\* The options main is entered with.  useGUI only selects where notifyUser
\* shows its message; the temporary manifest is the one StartGUI creates.
OptionSets ==
    { [eyecheck |-> e, sncut |-> c, infile |-> f, useGUI |-> IsTempInput(f),
       spectraPath |-> <<"d", "/">>] :
         e \in BOOLEAN, c \in SNCuts, f \in {UserInfile, TempInfile} }

\* A file left by an earlier run.
OldOut == [exists |-> TRUE, lines |-> << OutHeader, <<"old row">> >>]
OldReject == [exists |-> TRUE, lines |-> << RejectHeader, <<"old row">> >>]
Absent == [exists |-> FALSE, lines |-> <<>>]

\* main was entered directly: nothing is recorded of the entry controller or
\* of an earlier run.
NoEntry == [stage |-> "main"]

\* main was entered directly on a manifest of at most one line.
OneLine == [stage |-> "oneLine"]

\* What guessSpecType may leave in spec.guess: on a manifest of at most one
\* line the edge cases as well.
GuessesOf(e) == IF e = OneLine THEN Guesses \cup EdgeGuesses ELSE Guesses
NoPrior == [run |-> 1, outfile |-> Absent, rejectfile |-> Absent, trace |-> <<>>]

\* Lines 43-44: main has been entered and the Spectrum object created.
Init ==
    /\ options \in OptionSets
    /\ manifest \in { [exists |-> TRUE, lines |-> m] : m \in Manifests(MaxLines) } \cup { Absent }
    /\ \E old \in BOOLEAN :
          /\ outfile = IF old THEN OldOut ELSE Absent
          /\ rejectfile = IF old THEN OldReject ELSE Absent
    /\ handles = [infile |-> "none", outfile |-> "none", rejectfile |-> "none"]
    /\ pc = "main"
    /\ i = -1
    /\ fname = <<>>
    /\ ftype = <<>>
    /\ snVal = 0
    /\ shift = 0
    /\ rejectMessage = <<>>
    /\ guess = NoGuess
    /\ trace = <<>>
    /\ entry = NoEntry
    /\ prior = NoPrior

(***************************************************************************)
(* The steps of main                                                       *)
(***************************************************************************)
\* Lines 168-206: notifyUser shows the message, in a window or on stdout.
Notify(msg) == Ev("notifyUser", i, msg)

\* Mutant of Skips: the test of line 48 is turned round.
SkipsInverted(opts) == ~opts.eyecheck

\* Line 48: with options['eyecheck'] set the whole processing is skipped.
Skips(opts) == opts.eyecheck

\* Line 48, options['eyecheck'] true: the processing block is skipped.
SkipProcessing ==
    /\ pc = "main"
    /\ Skips(options)
    /\ pc' = "eyecheck"
    /\ UNCHANGED << entry, prior, options, manifest, outfile, rejectfile, handles, i, fname, ftype,
                    snVal, shift, rejectMessage, guess, trace >>

\* Mutants of Created: the header is written over the first line of the file
\* and the lines after it stay; the file is opened with mode 'a', so what it
\* held stays in front of the header.
CreatedKeepsOld(header) ==
    LET old == IF header = OutHeader THEN outfile.lines ELSE rejectfile.lines
    IN  [exists |-> TRUE, lines |-> << header >> \o (IF old = <<>> THEN <<>> ELSE Tail(old))]
CreatedAppend(header) ==
    [exists |-> TRUE,
     lines |-> (IF header = OutHeader THEN outfile.lines ELSE rejectfile.lines) \o << header >>]

\* Lines 58-61: a file opened with mode 'w' and given its header line.
Created(header) == [exists |-> TRUE, lines |-> << header >>]

\* Mutant of CanOpen: the open of the manifest never fails.
CanOpenAlways(m) == TRUE

\* Lines 51-52: open(options['infile'], 'r') raises IOError for a file that
\* is not there.
CanOpen(m) == m.exists

\* Lines 48-65: open the manifest; when that fails notify and return, else
\* open both output files, write the headers and clear rejectMessage.
OpenFiles ==
    /\ pc = "main"
    /\ ~Skips(options)
    /\ IF ~CanOpen(manifest)
       THEN /\ trace' = Append(trace, Notify(<<"IOError">>))
            /\ pc' = "returned"
            /\ UNCHANGED << outfile, rejectfile, handles, rejectMessage >>
       ELSE /\ handles' = [infile |-> "open", outfile |-> "open", rejectfile |-> "open"]
            /\ outfile' = Created(OutHeader)
            /\ rejectfile' = Created(RejectHeader)
            /\ rejectMessage' = <<>>
            /\ pc' = "for"
            /\ UNCHANGED trace
    /\ UNCHANGED << entry, prior, options, manifest, i, fname, ftype, snVal, shift, guess >>

\* Line 71: unpacking into fname, ftype needs exactly two parts.
Unpacks(parts) == Len(parts) = 2

\* Lines 67-74: take the next manifest line, parse it and print the progress
\* line.  A line that does not parse into two parts raises ValueError, which
\* nothing in main catches.
NextLine ==
    /\ pc = "for"
    /\ i + 1 < Len(manifest.lines)
    /\ i' = i + 1
    /\ LET parts == ParseLine(manifest.lines[i + 2])
       IN  IF Unpacks(parts)
           THEN /\ fname' = parts[1]
                /\ ftype' = parts[2]
                /\ trace' = Append(trace, Ev("print", i + 1, parts[1]))
                /\ pc' = "readFile"
           ELSE /\ pc' = "raised"
                /\ UNCHANGED << fname, ftype, trace >>
    /\ UNCHANGED << entry, prior, options, manifest, outfile, rejectfile, handles, snVal, shift,
                    rejectMessage, guess >>

\* Line 67: the manifest is exhausted and the loop ends.
EndLoop ==
    /\ pc = "for"
    /\ i + 1 >= Len(manifest.lines)
    /\ pc' = "close"
    /\ UNCHANGED << entry, prior, options, manifest, outfile, rejectfile, handles, i, fname, ftype,
                    snVal, shift, rejectMessage, guess, trace >>

\* What readFile returns: (True, '') or (False, message).
LoadResults == { << TRUE, <<>> >> } \cup { << FALSE, m >> : m \in FailMessages }

\* Engine contract of readFile: a successful load clears the derived state.
GuessAfterLoad(ok, g) == IF ok THEN NoGuess ELSE g

\* Mutants of AfterRead: the continue of line 85 is lost; a failed load is
\* tried again; the test of line 92 is lost.
AfterReadNoContinue(ok, cut) == IF cut # None THEN "calcSN" ELSE "normalizeFlux"
AfterReadRetry(ok, cut) ==
    IF ~ok THEN "readFile" ELSE IF cut # None THEN "calcSN" ELSE "normalizeFlux"
AfterReadAlwaysSN(ok, cut) == IF ~ok THEN "for" ELSE "calcSN"

\* Lines 82 and 92: where main goes after readFile returned.
AfterRead(ok, cut) ==
    IF ~ok THEN "for" ELSE IF cut # None THEN "calcSN" ELSE "normalizeFlux"

\* A row appended to an open file.
WriteRow(file, row) == [file EXCEPT !.lines = Append(@, row)]

\* Lines 78-85: load the spectrum; on failure write the reject row, extend
\* rejectMessage and continue with the next line.
ReadFile ==
    /\ pc = "readFile"
    /\ \E r \in LoadResults :
          LET called == Append(trace, Ev("readFile", i, << options.spectraPath \o fname, ftype, r[1], r[2] >>))
          IN  /\ guess' = GuessAfterLoad(r[1], guess)
              /\ pc' = AfterRead(r[1], options.sncut)
              /\ IF ~r[1]
                 THEN /\ rejectfile' = WriteRow(rejectfile, RejectRowNA(fname, ftype))
                      /\ trace' = Append(called, Ev("writeReject", i, RejectRowNA(fname, ftype)))
                      /\ rejectMessage' = rejectMessage \o LoadReason(fname, r[2])
                 ELSE /\ trace' = called
                      /\ UNCHANGED << rejectfile, rejectMessage >>
    /\ UNCHANGED << entry, prior, options, manifest, outfile, handles, i, fname, ftype, snVal, shift >>

\* Lines 92-97: with a floor configured, measure the S/N and reject below it.
CalcSN ==
    /\ pc = "calcSN"
    /\ \E v \in SNVals :
          LET called == Append(trace, Ev("calcSN", i, v))
          IN  /\ snVal' = v
              /\ IF BelowFloor(v, options.sncut)
                 THEN /\ rejectfile' = WriteRow(rejectfile, RejectRowSN(fname, ftype, v))
                      /\ trace' = Append(called, Ev("writeReject", i, RejectRowSN(fname, ftype, v)))
                      /\ rejectMessage' = rejectMessage \o SNReason(fname, v, options.sncut)
                      /\ pc' = "for"
                 ELSE /\ pc' = "normalizeFlux"
                      /\ trace' = called
                      /\ UNCHANGED << rejectfile, rejectMessage >>
    /\ UNCHANGED << entry, prior, options, manifest, outfile, handles, i, fname, ftype, shift, guess >>

\* Mutants of Then: shiftToRest is left out; the second guessSpecType is
\* left out.
ThenSkipShift(p) ==
    CASE p = "normalizeFlux"      -> "guessSpecType1"
      [] p = "guessSpecType1"     -> "findRadialVelocity"
      [] p = "findRadialVelocity" -> "guessSpecType2"
      [] p = "shiftToRest"        -> "guessSpecType2"
      [] p = "guessSpecType2"     -> "write"
      [] p = "write"              -> "for"
ThenSkipSecondGuess(p) ==
    CASE p = "normalizeFlux"      -> "guessSpecType1"
      [] p = "guessSpecType1"     -> "findRadialVelocity"
      [] p = "findRadialVelocity" -> "shiftToRest"
      [] p = "shiftToRest"        -> "write"
      [] p = "guessSpecType2"     -> "write"
      [] p = "write"              -> "for"

\* Lines 99-136: the order of the statements that follow the quality gate.
Then(p) ==
    CASE p = "normalizeFlux"      -> "guessSpecType1"
      [] p = "guessSpecType1"     -> "findRadialVelocity"
      [] p = "findRadialVelocity" -> "shiftToRest"
      [] p = "shiftToRest"        -> "guessSpecType2"
      [] p = "guessSpecType2"     -> "write"
      [] p = "write"              -> "for"

\* Line 101.
NormalizeFlux ==
    /\ pc = "normalizeFlux"
    /\ trace' = Append(trace, Ev("normalizeFlux", i, "-"))
    /\ pc' = Then(pc)
    /\ UNCHANGED << entry, prior, options, manifest, outfile, rejectfile, handles, i, fname, ftype,
                    snVal, shift, rejectMessage, guess >>

\* Line 106: the first classification pass.
GuessSpecType1 ==
    /\ pc = "guessSpecType1"
    /\ \E g \in GuessesOf(entry) :
          /\ guess' = g
          /\ trace' = Append(trace, Ev("guessSpecType", i, g))
    /\ pc' = Then(pc)
    /\ UNCHANGED << entry, prior, options, manifest, outfile, rejectfile, handles, i, fname, ftype,
                    snVal, shift, rejectMessage >>

\* Line 110.
FindRadialVelocity ==
    /\ pc = "findRadialVelocity"
    /\ \E s \in Shifts :
          /\ shift' = s
          /\ trace' = Append(trace, Ev("findRadialVelocity", i, s))
    /\ pc' = Then(pc)
    /\ UNCHANGED << entry, prior, options, manifest, outfile, rejectfile, handles, i, fname, ftype,
                    snVal, rejectMessage, guess >>

\* Mutant of ShiftArg: the spectrum is shifted by nothing.
ShiftArgZero(s) == 0

\* Line 114: the argument of shiftToRest.
ShiftArg(s) == s

\* Line 114.
ShiftToRest ==
    /\ pc = "shiftToRest"
    /\ trace' = Append(trace, Ev("shiftToRest", i, ShiftArg(shift)))
    /\ pc' = Then(pc)
    /\ UNCHANGED << entry, prior, options, manifest, outfile, rejectfile, handles, i, fname, ftype,
                    snVal, shift, rejectMessage, guess >>

\* Line 119: the second classification pass.
GuessSpecType2 ==
    /\ pc = "guessSpecType2"
    /\ \E g \in GuessesOf(entry) :
          /\ guess' = g
          /\ trace' = Append(trace, Ev("guessSpecType", i, g))
    /\ pc' = Then(pc)
    /\ UNCHANGED << entry, prior, options, manifest, outfile, rejectfile, handles, i, fname, ftype,
                    snVal, shift, rejectMessage >>

\* Lines 132-136: look the letter up and write the accept row.  An index the
\* list does not have raises IndexError, which nothing in main catches.
WriteAccept ==
    /\ pc = "write"
    /\ IF IndexOK(guess.specType)
       THEN /\ outfile' = WriteRow(outfile, AcceptRow(fname, shift, guess))
            /\ trace' = Append(trace, Ev("writeOut", i, AcceptRow(fname, shift, guess)))
            /\ pc' = Then(pc)
       ELSE /\ pc' = "raised"
            /\ UNCHANGED << outfile, trace >>
    /\ UNCHANGED << entry, prior, options, manifest, rejectfile, handles, i, fname, ftype, snVal,
                    shift, rejectMessage, guess >>

\* Mutant of AfterClose: the narrative is shown whether or not it is empty.
AfterCloseAlways(msg) == "report"

\* Line 145: where main goes once the files are closed.
AfterClose(msg) == IF msg # <<>> THEN "report" ELSE "eyecheck"

\* Lines 139-145: close the three files.
CloseFiles ==
    /\ pc = "close"
    /\ handles' = [infile |-> "closed", outfile |-> "closed", rejectfile |-> "closed"]
    /\ pc' = AfterClose(rejectMessage)
    /\ UNCHANGED << entry, prior, options, manifest, outfile, rejectfile, i, fname, ftype, snVal,
                    shift, rejectMessage, guess, trace >>

\* Lines 145-154: show the rejection narrative and test for all-rejected.
ReportRejects ==
    /\ pc = "report"
    /\ rejectMessage' = Prepended(rejectMessage)
    /\ trace' = Append(trace, Notify(rejectMessage'))
    /\ pc' = IF AllRejected(rejectMessage', i) THEN "allBad" ELSE "eyecheck"
    /\ UNCHANGED << entry, prior, options, manifest, outfile, rejectfile, handles, i, fname, ftype,
                    snVal, shift, guess >>

\* Lines 157-158 and 165-166: os.remove of a temporary manifest; removing a
\* file that is not there raises.
\* The field lines keeps what the file held.
RemoveTemp(called) ==
    IF ~IsTempInput(options.infile)
    THEN /\ pc' = "returned"
         /\ trace' = called
         /\ UNCHANGED manifest
    ELSE IF manifest.exists
         THEN /\ manifest' = [manifest EXCEPT !.exists = FALSE]
              /\ trace' = Append(called, Ev("remove", i, options.infile))
              /\ pc' = "returned"
         ELSE /\ pc' = "raised"
              /\ trace' = called
              /\ UNCHANGED manifest

\* Lines 155-159: every line was rejected; notify, clean up and return.
AllBad ==
    /\ pc = "allBad"
    /\ RemoveTemp(Append(trace, Notify(<<"All spectra were bad. Exiting PyHammer.">>)))
    /\ UNCHANGED << entry, prior, options, outfile, rejectfile, handles, i, fname, ftype, snVal,
                    shift, rejectMessage, guess >>

\* Line 162: the Reviewer is called with the engine and the options.
CallEyecheck ==
    /\ pc = "eyecheck"
    /\ trace' = Append(trace, Ev("Eyecheck", i, "-"))
    /\ pc' = "cleanup"
    /\ UNCHANGED << entry, prior, options, manifest, outfile, rejectfile, handles, i, fname, ftype,
                    snVal, shift, rejectMessage, guess >>

\* Lines 165-166.
Cleanup ==
    /\ pc = "cleanup"
    /\ RemoveTemp(trace)
    /\ UNCHANGED << entry, prior, options, outfile, rejectfile, handles, i, fname, ftype, snVal,
                    shift, rejectMessage, guess >>

Next ==
    \/ SkipProcessing
    \/ OpenFiles
    \/ NextLine
    \/ EndLoop
    \/ ReadFile
    \/ CalcSN
    \/ NormalizeFlux
    \/ GuessSpecType1
    \/ FindRadialVelocity
    \/ ShiftToRest
    \/ GuessSpecType2
    \/ WriteAccept
    \/ CloseFiles
    \/ ReportRejects
    \/ AllBad
    \/ CallEyecheck
    \/ Cleanup

Spec == Init /\ [][Next]_vars

(***************************************************************************)
(* One run of main on a manifest of at most one line                       *)
(***************************************************************************)
\* The floors: none, zero, the values calcSN returns, and one above them.
GateFloors == { None, <<0>>, <<2>>, <<5>>, <<6>> }

\* Where the manifest comes from: named by the user, written by goToMain
\* (lines 608-611), or named by the user with a name that begins with
\* temp_input_.  The second component is options['useGUI'].
ManifestSources == { << UserInfile, FALSE >>, << TempInfile, TRUE >>, << TempInfile, FALSE >> }

InitOneLine ==
    /\ options \in { [eyecheck |-> e, sncut |-> c, infile |-> f[1], useGUI |-> f[2],
                      spectraPath |-> <<"d", "/">>] :
                        e \in BOOLEAN, c \in GateFloors, f \in ManifestSources }
    /\ manifest \in { [exists |-> TRUE, lines |-> m] : m \in { x \in Manifests(MaxLines) : Len(x) <= 1 } }
                       \cup { Absent }
    /\ \E old \in BOOLEAN :
          /\ outfile = IF old THEN OldOut ELSE Absent
          /\ rejectfile = IF old THEN OldReject ELSE Absent
    /\ handles = [infile |-> "none", outfile |-> "none", rejectfile |-> "none"]
    /\ pc = "main"
    /\ i = -1
    /\ fname = <<>>
    /\ ftype = <<>>
    /\ snVal = 0
    /\ shift = 0
    /\ rejectMessage = <<>>
    /\ guess = NoGuess
    /\ trace = <<>>
    /\ entry = OneLine
    /\ prior = NoPrior

SpecOneLine == InitOneLine /\ [][Next]_vars

(***************************************************************************)
(* Two runs of main on the same manifest with the same options             *)
(***************************************************************************)
\* The engine calls that return a value to main.
AnsweringOps == { "readFile", "calcSN", "guessSpecType", "findRadialVelocity" }

\* A deterministic engine: a call made at the same place of the run as in
\* the earlier run, with the same arguments, returns what it returned then.
SameAnswers(tr, old) ==
    \A p \in 1..Len(tr) :
        (p <= Len(old) /\ tr[p].op = old[p].op /\ tr[p].op \in AnsweringOps) =>
            IF tr[p].op = "readFile"
            THEN (tr[p].val[1] = old[p].val[1] /\ tr[p].val[2] = old[p].val[2])
                    => (tr[p].val[3] = old[p].val[3] /\ tr[p].val[4] = old[p].val[4])
            ELSE tr[p].val = old[p].val

\* The first run: main is entered with a floor configured, on a manifest the
\* user supplied, with the files of an earlier batch on disk.
InitTwoRuns ==
    /\ Init
    /\ ~options.eyecheck
    /\ options.sncut # None
    /\ options.infile = UserInfile
    /\ manifest.exists
    /\ outfile = OldOut

\* A step of main; in the second run the engine answers as in the first.
RunStep ==
    /\ Next
    /\ prior.run = 2 => SameAnswers(trace', prior.trace)

\* The first run is over, by a return or by an exception; the script is
\* started again with the same options on the same manifest, with a fresh
\* Spectrum (lines 43-44) and the files the first run left.
SecondRun ==
    /\ prior.run = 1
    /\ pc \in { "returned", "raised" }
    /\ prior' = [run |-> 2, outfile |-> outfile, rejectfile |-> rejectfile, trace |-> trace]
    /\ handles' = [infile |-> "none", outfile |-> "none", rejectfile |-> "none"]
    /\ pc' = "main"
    /\ i' = -1
    /\ fname' = <<>>
    /\ ftype' = <<>>
    /\ snVal' = 0
    /\ shift' = 0
    /\ rejectMessage' = <<>>
    /\ guess' = NoGuess
    /\ trace' = <<>>
    /\ UNCHANGED << entry, options, manifest, outfile, rejectfile >>

NextTwoRuns ==
    \/ RunStep
    \/ SecondRun

SpecTwoRuns == InitTwoRuns /\ [][NextTwoRuns]_vars

(***************************************************************************)
(* The entry controller: __main__, startCmd and StartGUI (lines 236-891)   *)
(***************************************************************************)
\* A file name is a sequence of pieces whose last piece is its last four
\* characters; the empty sequence is the empty string, and stands for None
\* where the code keeps None.
NoName == <<>>
ListTxt == << "list", ".txt" >>
GoneTxt == << "gone", ".txt" >>
ListDat == << "list", ".dat" >>
DefaultOut == << "PyHammerResults", ".csv" >>
DefaultReject == << "RejectSpectra", ".csv" >>
OutTxt == << "out", ".txt" >>
MyOut == << "my", "_out" >>
TempName == << "temp_input_", "1", ".txt" >>
SpectraDir == << "spectra" >>
NoDir == << "nowhere" >>

\* name[-4:], and the tests made on it (lines 569-570, 656-657).
LastFour(name) == IF name = <<>> THEN "" ELSE name[Len(name)]
DotButNot(name, ext) == LastFour(name) \in { ".txt", ".csv", ".dat" } /\ LastFour(name) # ext
\* name + ext*(name[-4:] != ext) (lines 612-613, 665, 679, 693).
WithExt(name, ext) == IF LastFour(name) = ext THEN name ELSE Append(name, ext)
\* Lines 617-618, 711-712, 852-853: a path gets a closing separator.
WithSlash(path) == IF path # <<>> /\ path[Len(path)] \notin { "\\", "/" } THEN Append(path, "\\") ELSE path

\* The values options['sncut'] takes: None, the text of the -s argument, or
\* a float.
NoneV == [kind |-> "None", text |-> "", num |-> 0]
StrV(t) == [kind |-> "str", text |-> t, num |-> 0]
FloatV(n) == [kind |-> "float", text |-> "", num |-> n]

\* float(text): the texts float accepts, and their values.
Floatable(t) == t \in { "3", "-1" }
Float(t) == IF t = "3" THEN 3 ELSE -1

\* Lines 751-754: the default options.
DefaultOptions ==
    [infile |-> NoName, outfile |-> DefaultOut, rejectfile |-> DefaultReject,
     fullPath |-> "None", spectraPath |-> NoName, eyecheck |-> "None",
     sncut |-> NoneV, useGUI |-> "None"]

\* The options a command line may hold, as getopt returns them.
Flags == { << "-e", "" >>, << "-s", "3" >>, << "-s", "x" >>, << "-c", "" >>,
           << "-g", "" >>, << "-f", "" >>, << "-i", "list.txt" >> }

\* The widgets of a settings window that is not open.
\* Lines 372-374: the settings are shown one screen at a time, numbered from
\* firstSetting to lastSetting: 0 manifest, 1 accept file, 2 reject file,
\* 3 full paths, 4 spectra path, 5 skip to eyecheck, 6 S/N cut.
FirstSetting == 0
LastScreen == 6

NoWindow ==
    [createPressed |-> FALSE, createText |-> FALSE, infile |-> NoName, outfile |-> NoName,
     rejectfile |-> NoName, fullPath |-> 0, spectraPath |-> NoName, eyecheck |-> 0,
     sncut |-> "", edits |-> 0, curSetting |-> FirstSetting, lastSetting |-> LastScreen,
     prevButton |-> "disabled", nextButton |-> "normal"]

\* Lines 736-763: the script was started with a command line; the manifest
\* list.txt and the directory spectra exist, the accept file of an earlier
\* run may or may not.
InitEntry ==
    /\ \E argv \in UNION { [ 1..n -> Flags ] : n \in 0..MaxArgs }, old \in BOOLEAN :
          entry = [stage |-> "__main__", argv |-> argv, opts |-> DefaultOptions,
                   files |-> { ListTxt } \cup (IF old THEN { DefaultOut } ELSE {}),
                   gui |-> NoWindow, message |-> <<>>]
    /\ prior = NoPrior
    /\ options = [eyecheck |-> FALSE, sncut |-> None, infile |-> UserInfile,
                  useGUI |-> FALSE, spectraPath |-> <<>>]
    /\ manifest = Absent
    /\ outfile = Absent
    /\ rejectfile = Absent
    /\ handles = [infile |-> "none", outfile |-> "none", rejectfile |-> "none"]
    /\ pc = "__main__"
    /\ i = -1
    /\ fname = <<>>
    /\ ftype = <<>>
    /\ snVal = 0
    /\ shift = 0
    /\ rejectMessage = <<>>
    /\ guess = NoGuess
    /\ trace = <<>>

\* Nothing of main's own state changes before main is called.
MainUntouched ==
    UNCHANGED << prior, options, manifest, outfile, rejectfile, handles, pc, i, fname, ftype,
                 snVal, shift, rejectMessage, guess, trace >>

\* The refusals without the two that keep -e and -s apart.
RefusedInterfaceOnly(o, opt) ==
    \/ opt = "-f" /\ o.fullPath # "None"
    \/ opt \in { "-c", "-g" } /\ o.useGUI # "None"

\* Lines 838, 857, 864, 872 and 879: the options that end the script with
\* sys.exit.
Refused(o, opt) ==
    \/ opt = "-f" /\ o.fullPath # "None"
    \/ opt = "-e" /\ o.sncut # NoneV
    \/ opt = "-s" /\ o.eyecheck = "True"
    \/ opt \in { "-c", "-g" } /\ o.useGUI # "None"

\* Lines 824-882: what one option of the command line does to the options.
AfterOpt(o, opt, arg) ==
    CASE opt = "-i" -> [o EXCEPT !.infile = IF arg = "list.txt" THEN ListTxt ELSE GoneTxt]
      [] opt = "-f" -> [o EXCEPT !.fullPath = "True", !.spectraPath = NoName]
      [] opt = "-e" -> [o EXCEPT !.eyecheck = "True"]
      [] opt = "-s" -> [o EXCEPT !.eyecheck = "False", !.sncut = StrV(arg)]
      [] opt = "-c" -> [o EXCEPT !.useGUI = "False"]
      [] opt = "-g" -> [o EXCEPT !.useGUI = "True"]

\* Lines 766-882: one pass through the loop over the options.
ParseOpt ==
    /\ entry.stage = "__main__"
    /\ entry.argv # <<>>
    /\ LET opt == Head(entry.argv)[1]
           arg == Head(entry.argv)[2]
       IN  entry' = IF Refused(entry.opts, opt)
                    THEN [entry EXCEPT !.stage = "exit", !.argv = Tail(@)]
                    ELSE [entry EXCEPT !.opts = AfterOpt(@, opt, arg), !.argv = Tail(@)]
    /\ MainUntouched

\* Lines 395-402: updateGUI keeps the screen shown between the first and the
\* last setting and disables Previous on the first, Next on the last.
UpdateGUI(g) ==
    LET low == IF g.curSetting < FirstSetting THEN FirstSetting ELSE g.curSetting
        cur == IF low > g.lastSetting THEN g.lastSetting ELSE low
    IN  [g EXCEPT !.curSetting = cur,
                  !.prevButton = IF cur = FirstSetting THEN "disabled" ELSE "normal",
                  !.nextButton = IF cur = g.lastSetting THEN "disabled" ELSE "normal"]

\* Lines 256-301 and 372-375: the widgets of the settings window, filled from
\* the options, showing the first screen.
Widgets(o) ==
    UpdateGUI([createPressed |-> FALSE, createText |-> FALSE, infile |-> o.infile,
               outfile |-> o.outfile, rejectfile |-> o.rejectfile,
               fullPath |-> IF o.fullPath = "True" THEN 1 ELSE 0,
               spectraPath |-> o.spectraPath,
               eyecheck |-> IF o.eyecheck = "True" THEN 1 ELSE 0,
               sncut |-> o.sncut.text, edits |-> 0,
               curSetting |-> FirstSetting, lastSetting |-> LastScreen,
               prevButton |-> "normal", nextButton |-> "normal"])

\* Lines 884-891: the interface is chosen, the settings window by default.
ChooseInterface ==
    /\ entry.stage = "__main__"
    /\ entry.argv = <<>>
    /\ entry' = IF entry.opts.useGUI = "False"
                THEN [entry EXCEPT !.stage = "startCmd"]
                ELSE [entry EXCEPT !.stage = "StartGUI", !.opts.useGUI = "True",
                                   !.gui = Widgets(entry.opts)]
    /\ MainUntouched

\* Lines 653-665: the manifest name is asked for until it names a text file
\* that exists.
CmdInfile ==
    /\ entry.stage = "startCmd"
    /\ \E ans \in { ListTxt, << "list" >>, GoneTxt, ListDat } :
          LET name == IF entry.opts.infile = NoName THEN ans ELSE entry.opts.infile
              asked == entry.opts.infile = NoName
          IN  IF asked /\ (DotButNot(name, ".txt") \/ WithExt(name, ".txt") \notin entry.files)
              THEN UNCHANGED entry
              ELSE entry' = [entry EXCEPT !.stage = "cmdOutfile", !.opts.infile = WithExt(name, ".txt")]
    /\ MainUntouched

\* Lines 668-679 and 682-693: asked whether to change a default file name;
\* answering y and giving a name raises NameError, because outfileExt and
\* rejectExt are assigned through an index while they do not exist.
FileAnswer(e, field, default, ans, next) ==
    IF e.opts[field] = default /\ ans = "y"
    THEN [e EXCEPT !.stage = "raised", !.opts[field] = MyOut]
    ELSE [e EXCEPT !.stage = next, !.opts[field] = WithExt(@, ".csv")]

\* Lines 668-679.
CmdOutfile ==
    /\ entry.stage = "cmdOutfile"
    /\ \E ans \in { "y", "n" } :
          entry' = FileAnswer(entry, "outfile", DefaultOut, ans, "cmdRejectfile")
    /\ MainUntouched

\* Lines 682-693.
CmdRejectfile ==
    /\ entry.stage = "cmdRejectfile"
    /\ \E ans \in { "y", "n" } :
          entry' = FileAnswer(entry, "rejectfile", DefaultReject, ans, "cmdFullPath")
    /\ MainUntouched

\* Lines 697-712: asked whether the manifest gives full paths; the path to
\* prepend is asked for until it names a directory.
CmdFullPath ==
    /\ entry.stage = "cmdFullPath"
    /\ IF entry.opts.fullPath # "None"
       THEN entry' = [entry EXCEPT !.stage = "cmdEyecheck"]
       ELSE \E ans \in { "y", "n" }, dir \in { SpectraDir, NoDir } :
               IF ans = "y"
               THEN entry' = [entry EXCEPT !.stage = "cmdEyecheck", !.opts.fullPath = "True",
                                           !.opts.spectraPath = NoName]
               ELSE IF dir # SpectraDir
                    THEN UNCHANGED entry
                    ELSE entry' = [entry EXCEPT !.stage = "cmdEyecheck", !.opts.fullPath = "False",
                                                !.opts.spectraPath = WithSlash(dir)]
    /\ MainUntouched

\* Lines 716-718: asked whether to skip to the eyecheck, unless -e or -s said.
CmdEyecheck ==
    /\ entry.stage = "cmdEyecheck"
    /\ \E ans \in { "y", "n" } :
          entry' = [entry EXCEPT !.stage = "cmdSncut",
                       !.opts.eyecheck = IF @ = "None" THEN (IF ans = "y" THEN "True" ELSE "False") ELSE @]
    /\ MainUntouched

\* Lines 722-731: asked for a S/N cut when classifying and none was given; an
\* answer float rejects raises NameError, because the handler names Error.
CmdSncut ==
    /\ entry.stage = "cmdSncut"
    /\ \E ans \in { "y", "n" }, cut \in { "3", "x" } :
          IF entry.opts.eyecheck = "False" /\ entry.opts.sncut = NoneV /\ ans = "y"
          THEN IF Floatable(cut)
               THEN entry' = [entry EXCEPT !.stage = "callMain", !.opts.sncut = FloatV(Float(cut))]
               ELSE entry' = [entry EXCEPT !.stage = "raised"]
          ELSE entry' = [entry EXCEPT !.stage = "callMain"]
    /\ MainUntouched

\* Line 734: main(options).
CmdMain ==
    /\ entry.stage = "callMain"
    /\ entry' = [entry EXCEPT !.stage = "main"]
    /\ MainUntouched

\* The settings window is open, main has not been called and the user has
\* changes left to make.
Editing == entry.stage = "StartGUI" /\ entry.gui.edits < MaxEdits

\* Lines 404-496: the user types in the entry field of the screen shown: a
\* file name, a directory, the text of the S/N cut, or the text of the window
\* for creating a manifest (line 502 disables the manifest entry while that
\* window is open).
TypeText ==
    /\ Editing
    /\ \/ \E f \in { "infile", "outfile", "rejectfile" }, name \in { NoName, ListTxt, DefaultOut, OutTxt } :
             /\ f = "infile" => (entry.gui.curSetting = 0 /\ ~entry.gui.createPressed)
             /\ f = "outfile" => entry.gui.curSetting = 1
             /\ f = "rejectfile" => entry.gui.curSetting = 2
             /\ entry' = [entry EXCEPT !.gui[f] = name, !.gui.edits = @ + 1]
       \/ \E dir \in { NoName, SpectraDir, NoDir } :
             /\ entry.gui.curSetting = 4
             /\ entry' = [entry EXCEPT !.gui.spectraPath = dir, !.gui.edits = @ + 1]
       \/ \E t \in { "", "3", "-1", "x" } :
             /\ entry.gui.curSetting = 6
             /\ entry' = [entry EXCEPT !.gui.sncut = t, !.gui.edits = @ + 1]
       \/ \E b \in BOOLEAN :
             /\ entry.gui.curSetting = 0
             /\ entry.gui.createPressed
             /\ entry' = [entry EXCEPT !.gui.createText = b, !.gui.edits = @ + 1]
    /\ MainUntouched

\* Lines 289-298, 444-449 and 465-470: one of the radio buttons of the screen
\* shown is chosen; those of the eyecheck screen also disable (Yes) or enable
\* (No) the Next button.
ChooseRadio ==
    /\ Editing
    /\ \E v \in { 0, 1 } :
          \/ /\ entry.gui.curSetting = 3
             /\ entry' = [entry EXCEPT !.gui.fullPath = v, !.gui.edits = @ + 1]
          \/ /\ entry.gui.curSetting = 5
             /\ entry' = [entry EXCEPT !.gui.eyecheck = v, !.gui.edits = @ + 1,
                                        !.gui.nextButton = IF v = 1 THEN "disabled" ELSE "normal"]
    /\ MainUntouched

\* Lines 498-505: the Create button of the manifest screen turns the manifest
\* editor on or off and redraws the window.
CreateInputFile ==
    /\ Editing
    /\ entry.gui.curSetting = 0
    /\ entry' = [entry EXCEPT !.gui = UpdateGUI([@ EXCEPT !.createPressed = ~@, !.edits = @ + 1])]
    /\ MainUntouched

\* prevOption without the step over the spectra path screen.
AfterPrevNoSkip(g) ==
    UpdateGUI([g EXCEPT !.curSetting = @ - 1])

\* Lines 379-383: prevOption goes one screen back, over the spectra path
\* screen when the manifest gives full paths.
AfterPrev(g) ==
    LET back == g.curSetting - 1
        cur == IF back = 4 /\ g.fullPath = 1 THEN back - 1 ELSE back
    IN  UpdateGUI([g EXCEPT !.curSetting = cur])

\* Lines 385-393: nextOption goes one screen on, over the spectra path screen
\* when the manifest gives full paths, and makes the eyecheck screen the last
\* one when skipping to the eyecheck is chosen.
AfterNext(g) ==
    LET on == g.curSetting + 1
        cur == IF on = 4 /\ g.fullPath = 1 THEN on + 1 ELSE on
        last == IF cur >= 5 /\ g.eyecheck = 1 THEN 5 ELSE 6
    IN  UpdateGUI([g EXCEPT !.curSetting = cur, !.lastSetting = last])

\* Lines 258 and 370: Previous is pressed, which takes the button to be
\* enabled, or Shift-Tab is.
PrevOption ==
    /\ entry.stage = "StartGUI"
    /\ \E how \in { "Previous", "Shift-Tab" } :
          /\ how = "Previous" => entry.gui.prevButton = "normal"
          /\ entry' = [entry EXCEPT !.gui = AfterPrev(@)]
    /\ MainUntouched

\* Lines 260 and 369: Next is pressed, which takes the button to be enabled,
\* or Tab is.
NextOption ==
    /\ entry.stage = "StartGUI"
    /\ \E how \in { "Next", "Tab" } :
          /\ how = "Next" => entry.gui.nextButton = "normal"
          /\ entry' = [entry EXCEPT !.gui = AfterNext(@)]
    /\ MainUntouched

\* The issues found when the text of the S/N cut is not looked at.
IssuesNoSncut(g, files) ==
    (IF ~g.createPressed
     THEN (IF g.infile = NoName THEN << "A spectra list filename was not provided." >>
           ELSE IF g.infile \notin files THEN << "The input file cannot be found." >>
           ELSE <<>>)
     ELSE (IF ~g.createText THEN << "The text field for creating an input file is empty" >>
           ELSE <<>>))
    \o (IF g.outfile = NoName THEN << "An output filename was not provided." >>
        ELSE IF DotButNot(g.outfile, ".csv") THEN << "The output file must be a csv file." >>
        ELSE <<>>)
    \o (IF g.rejectfile = NoName THEN << "A reject filename was not provided." >>
        ELSE IF DotButNot(g.rejectfile, ".csv") THEN << "The reject file must be a csv file." >>
        ELSE <<>>)
    \o (IF g.fullPath # 0 THEN <<>>
        ELSE IF g.spectraPath = NoName THEN << "A path for the spectra was not provided." >>
        ELSE IF g.spectraPath # SpectraDir THEN << "The spectra path is not a valid directory." >>
        ELSE <<>>)
    \o (IF g.eyecheck = 1 /\ g.outfile \notin files
        THEN << "You cannot skip to eyecheck without an existing output file." >>
        ELSE <<>>)

\* Lines 554-594: the issues goToMain finds with what the window holds.
Issues(g, files) ==
    (IF ~g.createPressed
     THEN (IF g.infile = NoName THEN << "A spectra list filename was not provided." >>
           ELSE IF g.infile \notin files THEN << "The input file cannot be found." >>
           ELSE <<>>)
     ELSE (IF ~g.createText THEN << "The text field for creating an input file is empty" >>
           ELSE <<>>))
    \o (IF g.outfile = NoName THEN << "An output filename was not provided." >>
        ELSE IF DotButNot(g.outfile, ".csv") THEN << "The output file must be a csv file." >>
        ELSE <<>>)
    \o (IF g.rejectfile = NoName THEN << "A reject filename was not provided." >>
        ELSE IF DotButNot(g.rejectfile, ".csv") THEN << "The reject file must be a csv file." >>
        ELSE <<>>)
    \o (IF g.fullPath # 0 THEN <<>>
        ELSE IF g.spectraPath = NoName THEN << "A path for the spectra was not provided." >>
        ELSE IF g.spectraPath # SpectraDir THEN << "The spectra path is not a valid directory." >>
        ELSE <<>>)
    \o (IF g.eyecheck = 1 /\ g.outfile \notin files
        THEN << "You cannot skip to eyecheck without an existing output file." >>
        ELSE <<>>)
    \o (IF g.eyecheck = 0 /\ g.sncut # ""
        THEN (IF ~Floatable(g.sncut) THEN << "The entered S/N cut is not a valid number." >>
              ELSE IF Float(g.sncut) < 0 THEN << "The entered S/N cut must be greater than zero." >>
              ELSE <<>>)
        ELSE <<>>)

\* Lines 604-623: the options goToMain stores when it found no issue.
StoredOptions(o, g) ==
    [o EXCEPT !.infile = IF g.createPressed THEN TempName ELSE g.infile,
              !.outfile = WithExt(g.outfile, ".csv"),
              !.rejectfile = WithExt(g.rejectfile, ".csv"),
              !.fullPath = IF g.fullPath = 1 THEN "True" ELSE "False",
              !.spectraPath = WithSlash(IF g.fullPath = 1 THEN NoName ELSE g.spectraPath),
              !.eyecheck = IF g.eyecheck = 1 THEN "True" ELSE "False",
              !.sncut = IF g.eyecheck = 1 \/ g.sncut = "" THEN NoneV ELSE FloatV(Float(g.sncut))]

\* Lines 544-627: Start was pressed.  With issues the user is told and the
\* window stays; without, the options are stored, the temporary manifest is
\* written when the editor was used, and main is called.
GoToMain ==
    /\ entry.stage = "StartGUI"
    /\ LET found == Issues(entry.gui, entry.files)
       IN  IF found # <<>>
           THEN entry' = [entry EXCEPT !.message = found]
           ELSE entry' = [entry EXCEPT !.stage = "main", !.message = <<>>,
                                       !.opts = StoredOptions(@, entry.gui),
                                       !.files = IF entry.gui.createPressed
                                                 THEN @ \cup { TempName } ELSE @]
    /\ MainUntouched

NextEntry ==
    \/ ParseOpt
    \/ ChooseInterface
    \/ CmdInfile
    \/ CmdOutfile
    \/ CmdRejectfile
    \/ CmdFullPath
    \/ CmdEyecheck
    \/ CmdSncut
    \/ CmdMain
    \/ TypeText
    \/ ChooseRadio
    \/ CreateInputFile
    \/ PrevOption
    \/ NextOption
    \/ GoToMain

SpecEntry == InitEntry /\ [][NextEntry]_vars

(***************************************************************************)
(* The parsing of one manifest line (lines 67-74)                          *)
(***************************************************************************)
\* The texts of at most n characters drawn from chars.
Texts(chars, n) == UNION { [ 1..k -> chars ] : k \in 0..n }

\* A manifest line as the file holds it: path, separator, format tag and the
\* line break.
WrittenLine(path, sep, tag) == path \o << sep >> \o tag \o << "\n" >>

\* The lines the parser is given, each with the path, the separator and the
\* tag it was written with.
WrittenLines ==
    { [stage |-> "manifest", path |-> p, sep |-> f, tag |-> t] :
         p \in Texts({"a", " ", ","}, MaxPathLen),
         f \in {",", " "},
         t \in Texts({"o", " ", ","}, MaxTagLen) }

\* main is at the head of the loop of line 67 with a manifest of one line;
\* the files are open and hold their headers (lines 51-65).
InitParse ==
    /\ entry \in WrittenLines
    /\ prior = NoPrior
    /\ options = [eyecheck |-> FALSE, sncut |-> None, infile |-> UserInfile,
                  useGUI |-> FALSE, spectraPath |-> <<"d", "/">>]
    /\ manifest = [exists |-> TRUE, lines |-> << WrittenLine(entry.path, entry.sep, entry.tag) >>]
    /\ outfile = Created(OutHeader)
    /\ rejectfile = Created(RejectHeader)
    /\ handles = [infile |-> "open", outfile |-> "open", rejectfile |-> "open"]
    /\ pc = "for"
    /\ i = -1
    /\ fname = <<>>
    /\ ftype = <<>>
    /\ snVal = 0
    /\ shift = 0
    /\ rejectMessage = <<>>
    /\ guess = NoGuess
    /\ trace = <<>>

NextParse == NextLine

SpecParse == InitParse /\ [][NextParse]_vars

(***************************************************************************)
(* Reading the trace and the files                                         *)
(***************************************************************************)
EngineOps == { "readFile", "calcSN", "normalizeFlux", "guessSpecType",
               "findRadialVelocity", "shiftToRest" }
WriteOps == { "writeOut", "writeReject" }

NLines == Len(manifest.lines)

\* Positions of the trace holding one of the operations ops for line k.
At(ops, k) == { p \in 1..Len(trace) : trace[p].op \in ops /\ trace[p].i = k }

\* The engine calls and the row writes of line k, oldest first.
OpsOf(k) ==
    LET evs == SelectSeq(trace, LAMBDA e : e.i = k /\ e.op \in EngineOps \cup WriteOps)
    IN  [ p \in 1..Len(evs) |-> evs[p].op ]

\* The rows written by the operation op, oldest first.
Written(op) ==
    LET evs == SelectSeq(trace, LAMBDA e : e.op = op)
    IN  [ p \in 1..Len(evs) |-> evs[p].val ]

\* The number of rows the operation op wrote up to position p of the trace.
Rank(op, p) == Cardinality({ q \in 1..p : trace[q].op = op })

\* The data rows of a file main has opened.
DataRows(file) == Tail(file.lines)

Opened == handles.outfile # "none"

\* main has left the loop of line 67 by exhausting the manifest.
LoopDone == Opened /\ pc \in { "close", "report", "allBad", "eyecheck", "cleanup", "returned" }

\* The rejection narrative without the text of lines 147-148, cut into its
\* entries: an entry ends with each line break.
Body == IF rejectMessage # <<>> /\ Head(rejectMessage) = "The following is a list of rejected spectra"
        THEN SubSeq(rejectMessage, 6, Len(rejectMessage))
        ELSE rejectMessage

RECURSIVE EntriesAcc(_, _, _)
EntriesAcc(s, cur, acc) ==
    IF s = <<>> THEN (IF cur = <<>> THEN acc ELSE Append(acc, cur))
    ELSE IF Head(s) = "\n" THEN EntriesAcc(Tail(s), <<>>, Append(acc, Append(cur, "\n")))
    ELSE EntriesAcc(Tail(s), Append(cur, Head(s)), acc)

Entries == EntriesAcc(Body, <<>>, <<>>)

\* The path and the format tag manifest line k (from 0) was written with.
LineParts(k) == ParseLine(manifest.lines[k + 1])

\* What follows the reject row written at position p: the next line is taken
\* up, or the manifest is exhausted and main goes on to close the files.
ContinuesAfter(p) ==
    LET k == trace[p].i
    IN  IF p < Len(trace)
        THEN \/ trace[p + 1].op = "print" /\ trace[p + 1].i = k + 1
             \/ trace[p + 1].op = "notifyUser" /\ k = NLines - 1
        ELSE \/ pc = "for" /\ i = k
             \/ pc = "raised" /\ i = k + 1
             \/ pc \in { "close", "report" } /\ k = NLines - 1

(***************************************************************************)
(* Claims                                                                  *)
(***************************************************************************)
\* C1: once main has finished the processing loop, every manifest line has
\* produced exactly one row, in the accept file or in the reject file, so the
\* data rows of the two files together number the manifest lines.
C1_OneRowPerLine ==
    LoopDone =>
        /\ Len(DataRows(outfile)) + Len(DataRows(rejectfile)) = NLines
        /\ DataRows(outfile) = Written("writeOut")
        /\ DataRows(rejectfile) = Written("writeReject")
        /\ \A k \in 0..(NLines - 1) : Cardinality(At(WriteOps, k)) = 1

\* C1 witness: a finished batch of two lines, one accepted and one rejected.
C1_Witness ==
    /\ LoopDone
    /\ NLines = 2
    /\ Len(DataRows(outfile)) = 1
    /\ Len(DataRows(rejectfile)) = 1

\* C2: lines are handled one at a time in manifest order: the k-th readFile
\* call is for manifest line k and there is no other, the load of a line
\* comes after the row of the line before it, and the rows of each file are
\* in manifest order.
C2_OneAtATimeInOrder ==
    /\ \A p \in 1..Len(trace) :
          trace[p].op = "readFile" =>
             LET k == trace[p].i
             IN  /\ Rank("readFile", p) = k + 1
                 /\ k < NLines
                 /\ trace[p].val[1] = options.spectraPath \o LineParts(k)[1]
                 /\ trace[p].val[2] = LineParts(k)[2]
                 /\ k > 0 => \E q \in 1..(p - 1) : trace[q].op \in WriteOps /\ trace[q].i = k - 1
    /\ \A p, q \in 1..Len(trace) :
          (p < q /\ trace[p].op \in WriteOps /\ trace[q].op \in WriteOps)
             => trace[p].i < trace[q].i
    /\ Opened => /\ DataRows(outfile) = Written("writeOut")
                 /\ DataRows(rejectfile) = Written("writeReject")

\* C2 witness: the second line is being loaded after the first was rejected.
C2_Witness ==
    /\ Cardinality(At({"readFile"}, 1)) = 1
    /\ Cardinality(At({"writeReject"}, 0)) = 1
    /\ Len(DataRows(rejectfile)) = 2

\* C3: a failed load gives the line one reject row whose S/N field is N/A
\* and one narrative entry holding the failure message, no further engine
\* call, no accept row, and main goes on to the next line.
C3_LoadFailure ==
    \A p \in 1..Len(trace) :
        (trace[p].op = "readFile" /\ ~trace[p].val[3]) =>
            LET k == trace[p].i
                r == Rank("writeReject", p + 1)
                msg == SelectSeq(trace[p].val[4], LAMBDA c : c # "\n")
            IN  /\ OpsOf(k) = << "readFile", "writeReject" >>
                /\ trace[p + 1].op = "writeReject"
                /\ rejectfile.lines[r + 1] = << LineParts(k)[1], LineParts(k)[2], "N/A" >>
                /\ Len(Entries) = Len(DataRows(rejectfile))
                /\ Entries[r] = <<"FILE: ">> \o LineParts(k)[1] \o <<"  REASON: ">> \o msg \o <<"\n">>
                /\ ContinuesAfter(p + 1)

\* C3 witness: a load has failed with the message that holds a line break,
\* and the next line has been taken up.
C3_Witness ==
    \E p \in 1..Len(trace) :
        /\ trace[p].op = "readFile" /\ ~trace[p].val[3]
        /\ Len(trace[p].val[4]) = 3
        /\ trace[p].i = 0
        /\ i = 1

\* C4: with a floor configured, a loaded spectrum whose S/N is below it gets
\* one reject row carrying the measured S/N and one narrative entry citing
\* the comparison, no normalize, classify, velocity or shift call, no accept
\* row, and main goes on to the next line.
C4_BelowFloor ==
    \A p \in 1..Len(trace) :
        (trace[p].op = "calcSN" /\ trace[p].val < options.sncut[1]) =>
            LET k == trace[p].i
                r == Rank("writeReject", p + 1)
            IN  /\ OpsOf(k) = << "readFile", "calcSN", "writeReject" >>
                /\ trace[p + 1].op = "writeReject"
                /\ rejectfile.lines[r + 1] = << LineParts(k)[1], LineParts(k)[2], ToString(trace[p].val) >>
                /\ Len(Entries) = Len(DataRows(rejectfile))
                /\ Entries[r] = <<"FILE: ">> \o LineParts(k)[1]
                                  \o << "  REASON: S/N = ", ToString(trace[p].val), " < ",
                                        ToString(options.sncut[1]), "\n" >>
                /\ ContinuesAfter(p + 1)

\* C4 witness: S/N 2 was measured against the floor 5 on the first line and
\* the second line has been taken up.
C4_Witness ==
    \E p \in 1..Len(trace) :
        /\ trace[p].op = "calcSN" /\ trace[p].val = 2 /\ trace[p].i = 0
        /\ options.sncut = <<5>>
        /\ i = 1

\* C5: with no floor configured calcSN is never called, every reject row has
\* the S/N field N/A and belongs to a line whose load failed, and every line
\* that loaded gets an accept row.
C5_NoFloorNoQualityReject ==
    options.sncut = None =>
        /\ pc # "calcSN"
        /\ \A p \in 1..Len(trace) : trace[p].op # "calcSN"
        /\ Opened => \A r \in 1..Len(DataRows(rejectfile)) : DataRows(rejectfile)[r][3] = "N/A"
        /\ \A p \in 1..Len(trace) :
              trace[p].op = "writeReject" =>
                 \E q \in 1..(p - 1) : /\ trace[q].op = "readFile" /\ trace[q].i = trace[p].i
                                       /\ ~trace[q].val[3]
        /\ \A p \in 1..Len(trace) :
              (trace[p].op = "readFile" /\ trace[p].val[3] /\ (i > trace[p].i \/ LoopDone)) =>
                 Cardinality(At({"writeOut"}, trace[p].i)) = 1

\* C5 witness: no floor, one line failed to load and one line was accepted.
C5_Witness ==
    /\ options.sncut = None
    /\ LoopDone
    /\ Len(DataRows(outfile)) = 1
    /\ Len(DataRows(rejectfile)) = 1

\* The engine calls of an accepted line, in the order of lines 78-119.
AcceptedCalls ==
    <<"readFile">> \o (IF options.sncut # None THEN <<"calcSN">> ELSE <<>>)
       \o << "normalizeFlux", "guessSpecType", "findRadialVelocity", "shiftToRest",
             "guessSpecType" >>

IsPrefix(a, b) == Len(a) <= Len(b) /\ SubSeq(b, 1, Len(a)) = a

\* C6: an accepted line has had exactly the calls readFile, calcSN when a
\* floor is configured, normalizeFlux, guessSpecType, findRadialVelocity,
\* shiftToRest, guessSpecType, in this order and one after the other, and
\* then its accept row; a line on its way makes its calls in that order.
C6_CallOrder ==
    /\ \A p \in 1..Len(trace) :
          trace[p].op = "writeOut" =>
             LET n == Len(AcceptedCalls)
             IN  /\ OpsOf(trace[p].i) = Append(AcceptedCalls, "writeOut")
                 /\ p > n
                 /\ \A d \in 1..n : /\ trace[p - n - 1 + d].op = AcceptedCalls[d]
                                    /\ trace[p - n - 1 + d].i = trace[p].i
    /\ \A k \in 0..i :
          \/ IsPrefix(OpsOf(k), Append(AcceptedCalls, "writeOut"))
          \/ OpsOf(k)[Len(OpsOf(k))] = "writeReject"

\* C6 witness: an accept row was written with a floor configured.
C6_Witness ==
    /\ options.sncut = <<5>>
    /\ Cardinality(At({"writeOut"}, 1)) = 1
    /\ Cardinality(At({"guessSpecType"}, 1)) = 2
    /\ Cardinality(At({"calcSN"}, 1)) = 1

\* The type and metallicity fields of an accept row written from the Guess g.
GuessFields(g) == << << LetterSpt(g.specType), ToString(g.subType) >>, MetalFmt(g.metal) >>

\* C7: the type, sub-type and metallicity of every accept row are those of
\* the Guess the second guessSpecType call of that line left, and not those
\* of the first call when the two differ.
C7_SecondPassWritten ==
    \A p \in 1..Len(trace) :
        trace[p].op = "writeOut" =>
            LET cls == { q \in At({"guessSpecType"}, trace[p].i) : q < p }
                row == outfile.lines[Rank("writeOut", p) + 1]
            IN  /\ Cardinality(cls) = 2
                /\ \A q1, q2 \in cls :
                      q1 < q2 =>
                         /\ << row[3], row[4] >> = GuessFields(trace[q2].val)
                         /\ \A q \in (q2 + 1)..(p - 1) : trace[q].op \notin EngineOps
                         /\ trace[q1].val # trace[q2].val
                               => << row[3], row[4] >> # GuessFields(trace[q1].val)

\* C7 witness: an accept row was written after two passes that disagree.
C7_Witness ==
    \E p, q1, q2 \in 1..Len(trace) :
        /\ q1 < q2 /\ q2 < p
        /\ trace[p].op = "writeOut"
        /\ trace[q1].op = "guessSpecType" /\ trace[q1].i = trace[p].i
        /\ trace[q2].op = "guessSpecType" /\ trace[q2].i = trace[p].i
        /\ trace[q1].val # trace[q2].val

\* C8: when every manifest line was rejected, the accept file holds its
\* header and no data row, Eyecheck is never called and main returns.
C8_AllRejectedNoReview ==
    (LoopDone /\ Len(DataRows(rejectfile)) = NLines) =>
        /\ outfile.lines = << OutHeader >>
        /\ At({"Eyecheck"}, i) = {}
        /\ pc \notin { "eyecheck", "cleanup" }

\* C9: when at least one line was accepted and the others rejected, Eyecheck
\* is called exactly once, after every line has its row, and after the call
\* main calls the engine no more and writes no more rows.
C9_ReviewOnceAtEnd ==
    (LoopDone /\ Len(DataRows(outfile)) >= 1) =>
        /\ pc # "allBad"
        /\ Cardinality(At({"Eyecheck"}, i)) = IF pc \in { "cleanup", "returned" } THEN 1 ELSE 0
        /\ \A p \in 1..Len(trace) :
              trace[p].op = "Eyecheck" =>
                 /\ \A k \in 0..(NLines - 1) : \E q \in 1..(p - 1) : trace[q].op \in WriteOps /\ trace[q].i = k
                 /\ \A q \in (p + 1)..Len(trace) : trace[q].op \notin EngineOps \cup WriteOps
        /\ DataRows(outfile) = Written("writeOut")
        /\ DataRows(rejectfile) = Written("writeReject")

\* C9 witness: main has returned from a batch with one line accepted and one
\* rejected.
C9_Witness ==
    /\ pc = "returned"
    /\ Opened
    /\ Len(DataRows(outfile)) = 1
    /\ Len(DataRows(rejectfile)) = 1
    /\ Cardinality(At({"Eyecheck"}, i)) = 1

\* C10: on every way out of main that opened the accept and reject files,
\* both are closed before Eyecheck is called and before main is left, by a
\* return or by an exception.
C10_ClosedOnEveryExit ==
    (Opened /\ pc \in { "eyecheck", "cleanup", "returned", "raised" }) =>
        /\ handles.outfile = "closed"
        /\ handles.rejectfile = "closed"

\* C11: no manifest line aborts the batch: whatever a line holds, main goes
\* on to the lines after it and reaches the closing of the files, so a run
\* that opened its files never ends inside the loop with an exception.
C11_NoLineAbortsBatch ==
    Opened => pc # "raised"

\* C12: with options['eyecheck'] set main calls no engine operation, opens
\* and writes none of the three files, shows no notice, leaves the accept and
\* reject files as the earlier run left them, and calls Eyecheck once.
C12_SkipToReview ==
    options.eyecheck =>
        /\ \A p \in 1..Len(trace) : trace[p].op \in { "Eyecheck", "remove" }
        /\ handles = [infile |-> "none", outfile |-> "none", rejectfile |-> "none"]
        /\ \/ outfile = OldOut /\ rejectfile = OldReject
           \/ outfile = Absent /\ rejectfile = Absent
        /\ rejectMessage = <<>>
        /\ Cardinality(At({"Eyecheck"}, i)) =
              IF pc \in { "cleanup", "returned", "raised" } THEN 1 ELSE 0

\* C12 witness: a skip-to-review run has returned and the files of the
\* earlier run are as they were.
C12_Witness ==
    /\ options.eyecheck
    /\ pc = "returned"
    /\ outfile = OldOut
    /\ Cardinality(At({"Eyecheck"}, i)) = 1

\* The positions of the trace where the rejection narrative was shown.
NarrativeNotices ==
    { p \in 1..Len(trace) :
         /\ trace[p].op = "notifyUser"
         /\ Head(trace[p].val) = "The following is a list of rejected spectra" }

\* The positions of the reject rows in the trace, oldest first.
RejectPositions == SelectSeq([ p \in 1..Len(trace) |-> p ], LAMBDA p : trace[p].op = "writeReject")

\* The narrative entry of the reject row written at position q, from the
\* call that came just before it: readFile with its message, or calcSN with
\* the value measured.
ExpectedEntry(q) ==
    LET e == trace[q - 1]
        f == LineParts(trace[q].i)[1]
    IN  IF e.op = "readFile"
        THEN <<"FILE: ">> \o f \o <<"  REASON: ">>
                \o SelectSeq(e.val[4], LAMBDA c : c # "\n") \o <<"\n">>
        ELSE <<"FILE: ">> \o f
                \o <<"  REASON: S/N = ", ToString(e.val), " < ", ToString(options.sncut[1]), "\n">>

\* C13: the rejection narrative is shown at most once, after every line has
\* had its row and the files are closed, and only when a line was rejected;
\* it holds one entry for each rejected line, in manifest order; no notice
\* is shown while the lines are being processed.
C13_NarrativeOnceAtEnd ==
    /\ Cardinality(NarrativeNotices) <= 1
    /\ (Opened /\ ~LoopDone) => \A p \in 1..Len(trace) : trace[p].op # "notifyUser"
    /\ \A p \in NarrativeNotices :
          /\ handles = [infile |-> "closed", outfile |-> "closed", rejectfile |-> "closed"]
          /\ \A k \in 0..(NLines - 1) : \E q \in 1..(p - 1) : trace[q].op \in WriteOps /\ trace[q].i = k
          /\ \A q \in (p + 1)..Len(trace) : trace[q].op \notin EngineOps \cup WriteOps
          /\ Len(RejectPositions) >= 1
          /\ EntriesAcc(SubSeq(trace[p].val, 6, Len(trace[p].val)), <<>>, <<>>)
                = [ r \in 1..Len(RejectPositions) |-> ExpectedEntry(RejectPositions[r]) ]

\* C13 witness: the narrative was shown for a batch of two rejected lines.
C13_Witness ==
    /\ NarrativeNotices # {}
    /\ Len(RejectPositions) = 2
    /\ \E p \in 1..Len(trace) : trace[p].op = "calcSN"

\* C14: once main has taken up a line both output files exist, each begins
\* with its header, and the lines after the header are the rows this run
\* wrote: nothing an earlier run left is in them.
C14_FreshOutputs ==
    (Opened \/ i >= 0 \/ \E p \in 1..Len(trace) : trace[p].op \in EngineOps \cup WriteOps \cup {"print"}) =>
        /\ Opened
        /\ outfile.exists /\ rejectfile.exists
        /\ Len(outfile.lines) = 1 + Len(Written("writeOut"))
        /\ Len(rejectfile.lines) = 1 + Len(Written("writeReject"))
        /\ Head(outfile.lines) = OutHeader
        /\ Head(rejectfile.lines) = RejectHeader
        /\ DataRows(outfile) = Written("writeOut")
        /\ DataRows(rejectfile) = Written("writeReject")

\* C14 witness: the first line is about to be loaded and each file holds its
\* header alone.
C14_Witness ==
    /\ pc = "readFile"
    /\ i = 0
    /\ outfile.lines = << OutHeader >>
    /\ rejectfile.lines = << RejectHeader >>

\* C15: a line whose load failed has no accept row and no further engine
\* call; the accept row of a line holds the path of that line, the shift a
\* findRadialVelocity call for that line returned and the Guess a
\* guessSpecType call for that line left, both made after the one load of
\* that line, which succeeded.
C15_OwnValuesOnly ==
    /\ \A q \in 1..Len(trace) :
          (trace[q].op = "readFile" /\ ~trace[q].val[3]) =>
             /\ At({"writeOut"}, trace[q].i) = {}
             /\ \A r \in (q + 1)..Len(trace) : trace[r].op \in EngineOps => trace[r].i # trace[q].i
    /\ \A p \in 1..Len(trace) :
          trace[p].op = "writeOut" =>
             LET k == trace[p].i
                 row == outfile.lines[Rank("writeOut", p) + 1]
                 loads == At({"readFile"}, k)
             IN  /\ Cardinality(loads) = 1
                 /\ row = trace[p].val
                 /\ row[1] = LineParts(k)[1]
                 /\ \A q \in loads :
                       /\ trace[q].val[3]
                       /\ \E g \in At({"guessSpecType"}, k), v \in At({"findRadialVelocity"}, k) :
                             /\ q < g /\ g < p /\ q < v /\ v < p
                             /\ row[2] = ToString(trace[v].val)
                             /\ << row[3], row[4] >> = GuessFields(trace[g].val)

\* C15 witness: the first line was accepted, the load of the second failed
\* while the engine still held the Guess of the first, and the batch ended
\* with one accept row.
C15_Witness ==
    /\ LoopDone
    /\ At({"writeOut"}, 0) # {}
    /\ \E q \in At({"readFile"}, 1) : ~trace[q].val[3]
    /\ guess \in Guesses
    /\ Len(DataRows(outfile)) = 1

\* C20: for every accept row the line had one findRadialVelocity call, made
\* after the first guessSpecType call, and one shiftToRest call, made next
\* and before the second guessSpecType call; the value the first returned,
\* the argument of the second and the shift field of the row are the same.
C20_OneShift ==
    /\ \A s \in 1..Len(trace) :
          trace[s].op = "shiftToRest" =>
             /\ s > 1
             /\ trace[s - 1].op = "findRadialVelocity"
             /\ trace[s - 1].i = trace[s].i
             /\ trace[s - 1].val = trace[s].val
    /\ \A p \in 1..Len(trace) :
          trace[p].op = "writeOut" =>
             LET k == trace[p].i
                 row == outfile.lines[Rank("writeOut", p) + 1]
                 vs == At({"findRadialVelocity"}, k)
                 ss == At({"shiftToRest"}, k)
                 gs == At({"guessSpecType"}, k)
             IN  /\ Cardinality(vs) = 1
                 /\ Cardinality(ss) = 1
                 /\ \A v \in vs, s \in ss :
                       /\ v < s /\ s < p
                       /\ trace[s].val = trace[v].val
                       /\ row[2] = ToString(trace[v].val)
                       /\ \E g1, g2 \in gs : g1 < v /\ s < g2 /\ g2 < p

\* C20 witness: an accept row with the shift -30 was written after two
\* passes that disagree.
C20_Witness ==
    \E p, g1, g2, v \in 1..Len(trace) :
        /\ g1 < v /\ v < g2 /\ g2 < p
        /\ trace[p].op = "writeOut" /\ trace[p].val[2] = ToString(-30)
        /\ trace[v].op = "findRadialVelocity" /\ trace[v].val = -30
        /\ trace[g1].op = "guessSpecType" /\ trace[g2].op = "guessSpecType"
        /\ trace[g1].i = trace[p].i /\ trace[g2].i = trace[p].i /\ trace[v].i = trace[p].i
        /\ trace[g1].val # trace[g2].val

\* A path or tag with no blank at either end.
Trimmed(t) == t # <<>> /\ ~IsSpace(t[1]) /\ ~IsSpace(t[Len(t)])

\* A tag of one comma-free word.
OneWord(tag) == tag # <<>> /\ \A k \in 1..Len(tag) : tag[k] # "," /\ ~IsSpace(tag[k])

\* A path of comma-free words separated by single blanks, and a tag of one
\* comma-free word.
WellFormed(path, tag) ==
    /\ Trimmed(path) /\ Trimmed(tag)
    /\ \A k \in 1..Len(path) : path[k] # ","
    /\ \A k \in 1..(Len(path) - 1) : ~(IsSpace(path[k]) /\ IsSpace(path[k + 1]))
    /\ OneWord(tag)

\* The tokens of the line main has taken up, after the commas were made
\* blanks (line 70 does so when the first comma is not the first character).
LineTokens ==
    LET stripped == Strip(manifest.lines[1])
    IN  Split(IF \E k \in 2..Len(stripped) : stripped[k] = "," /\ stripped[1] # ","
              THEN [ k \in 1..Len(stripped) |-> IF stripped[k] = "," THEN " " ELSE stripped[k] ]
              ELSE stripped)

C17_FloorIsNoneOrNumber ==
    entry.stage = "main" => entry.opts.sncut.kind \in { "None", "float" }

\* C18: on every way into main, main is called with options['eyecheck'] set
\* only when the file options['outfile'] names exists.
C18_SkipNeedsAcceptFile ==
    (entry.stage = "main" /\ entry.opts.eyecheck = "True") => entry.opts.outfile \in entry.files

C21_AllRejectedTest ==
    \A p \in NarrativeNotices :
        NLines >= 1 =>
            LET all == Len(RejectPositions) = NLines
            IN  /\ CountNL(trace[p].val) = Len(RejectPositions) + 3
                /\ AllRejected(trace[p].val, i) <=> all
                /\ all => /\ pc \in { "allBad", "returned" }
                          /\ \A q \in 1..Len(trace) : trace[q].op # "Eyecheck"
                /\ ~all => pc \in { "eyecheck", "cleanup", "returned" }

\* C21 witness: both lines of a manifest were rejected, one of them with a
\* message that holds a line break, and main is about to return.
C21_Witness ==
    /\ pc = "allBad"
    /\ NLines = 2
    /\ \E q \in 1..Len(trace) :
          /\ trace[q].op = "readFile"
          /\ ~trace[q].val[3]
          /\ \E k \in 1..Len(trace[q].val[4]) : trace[q].val[4][k] = "\n"

\* C22: in a run that does the processing Eyecheck is called only when the
\* accept file holds a data row; for a manifest of no lines main writes the
\* two headers and returns without calling Eyecheck.
C22_ReviewNeedsAcceptRow ==
    (~options.eyecheck /\ \E p \in 1..Len(trace) : trace[p].op = "Eyecheck") =>
        Len(DataRows(outfile)) >= 1

\* The line k has been dealt with and main was not left by an exception.
LineDone(k) == (pc = "for" /\ i >= k) \/ (LoopDone /\ NLines > k)

\* C23: the quality gate rejects only a value strictly below the floor: a
\* line whose S/N equals or exceeds the floor gets no reject row, makes its
\* further calls in the order of an accepted line and ends with an accept
\* row; a line that got a reject row after calcSN measured below the floor.
C23_StrictFloor ==
    \A p \in 1..Len(trace) :
        trace[p].op = "calcSN" =>
            LET k == trace[p].i
            IN  /\ trace[p].val >= options.sncut[1] =>
                      /\ At({"writeReject"}, k) = {}
                      /\ IsPrefix(OpsOf(k), Append(AcceptedCalls, "writeOut"))
                      /\ LineDone(k) => Cardinality(At({"writeOut"}, k)) = 1
                /\ At({"writeReject"}, k) # {} => trace[p].val < options.sncut[1]

\* C23 witness: a line whose S/N equals the floor has its accept row.
C23_Witness ==
    /\ options.sncut = <<5>>
    /\ \E p \in 1..Len(trace) : trace[p].op = "calcSN" /\ trace[p].val = 5
    /\ Len(DataRows(outfile)) = 1
    /\ pc = "returned"

\* C24: main removes the manifest only when StartGUI wrote it for this run,
\* and then once: gone when main returns after the all-rejected notice or
\* after Eyecheck; a manifest the user named is never removed.
C24_OnlyOwnManifestRemoved ==
    LET removes == { p \in 1..Len(trace) : trace[p].op = "remove" }
        own == options.useGUI /\ IsTempInput(options.infile)
    IN  /\ Cardinality(removes) <= 1
        /\ removes # {} => own
        /\ ~own => (manifest.exists \/ Len(trace) <= 1)
        /\ (own /\ pc = "returned" /\ \E p \in 1..Len(trace) : trace[p].op = "Eyecheck")
              => (Cardinality(removes) = 1 /\ ~manifest.exists)
        /\ (own /\ pc = "returned" /\ Opened) => (Cardinality(removes) = 1 /\ ~manifest.exists)

\* C25: when the manifest cannot be opened main, in a run that does the
\* processing, shows one notice and returns: the accept and reject files are
\* as they were, nothing was opened, and no engine call and no call of
\* Eyecheck was made.
C25_ManifestOpenFailure ==
    (~options.eyecheck /\ ~manifest.exists /\ \A p \in 1..Len(trace) : trace[p].op # "remove") =>
        /\ handles = [infile |-> "none", outfile |-> "none", rejectfile |-> "none"]
        /\ Len(trace) <= 1
        /\ \/ pc = "main" /\ trace = <<>>
           \/ pc = "returned" /\ Len(trace) = 1 /\ trace[1].op = "notifyUser"
        /\ \/ outfile = OldOut /\ rejectfile = OldReject
           \/ outfile = Absent /\ rejectfile = Absent

\* C25 witness: main has returned from a manifest that is not there, with the
\* files of an earlier run on disk.
C25_Witness ==
    /\ ~options.eyecheck
    /\ ~manifest.exists
    /\ manifest.lines = <<>>
    /\ pc = "returned"
    /\ Len(trace) = 1
    /\ outfile = OldOut

\* C29: the letter of every accept row is the letter at the index specType
\* of the Guess the last guessSpecType call left, counted from O at 0 to L
\* at 7, and that index is one of 0..7.
C29_LetterOfIndex ==
    \A p \in 1..Len(trace) :
        trace[p].op = "writeOut" =>
            LET cls == { q \in At({"guessSpecType"}, trace[p].i) : q < p }
                last == CHOOSE q \in cls : \A r \in cls : r <= q
                idx == trace[last].val.specType
            IN  /\ cls # {}
                /\ idx \in 0..7
                /\ trace[p].val[3][1] = Letters[idx + 1]

\* C26: when main is entered with the option eyecheck true, the option sncut
\* is None, whichever way the options were gathered: the flags -e and -s in
\* either order, the prompts of the command line, or the settings window.
C26_SkipHasNoFloor ==
    (entry.stage = "main" /\ entry.opts.eyecheck = "True") => entry.opts.sncut = NoneV

\* C26 witness: main is entered from the settings window to skip to the
\* eyecheck, while the S/N entry of the window still holds the text the -s
\* flag put there.
C26_Witness ==
    /\ entry.stage = "main"
    /\ entry.opts.eyecheck = "True"
    /\ entry.opts.sncut = NoneV
    /\ entry.gui.eyecheck = 1
    /\ entry.gui.sncut = "3"

\* What goToMain asks of the settings window, condition by condition.
AllValid(g, files) ==
    /\ g.createPressed => g.createText
    /\ ~g.createPressed => (g.infile # NoName /\ g.infile \in files)
    /\ g.outfile # NoName /\ ~DotButNot(g.outfile, ".csv")
    /\ g.rejectfile # NoName /\ ~DotButNot(g.rejectfile, ".csv")
    /\ g.fullPath = 0 => g.spectraPath = SpectraDir
    /\ g.eyecheck = 1 => g.outfile \in files
    /\ (g.eyecheck = 0 /\ g.sncut # "") => (Floatable(g.sncut) /\ Float(g.sncut) >= 0)

\* C27: while the settings window is open main is called only from a window
\* that passes every validation.  A step taken with a window that does not
\* pass leaves the window open, the options and the files on disk as they
\* were (no temporary manifest is written) and main uncalled; when that step
\* is the press of Start, which leaves the widgets as they are, the user has
\* been given a message.
C27_StartOnlyWhenValid ==
    [][ entry.stage = "StartGUI" =>
          LET valid == AllValid(entry.gui, entry.files)
          IN  /\ entry'.stage = "main" => valid
              /\ ~valid => /\ entry'.stage = "StartGUI"
                            /\ entry'.opts = entry.opts
                            /\ entry'.files = entry.files
                            /\ TempName \notin entry'.files
                            /\ pc' = pc
                            /\ trace' = trace
              /\ (~valid /\ entry'.gui = entry.gui) => entry'.message # <<>> ]_vars

\* C27 witness: Start was pressed with a S/N cut that is not a number; the
\* user was told so, the window is open, the options hold no S/N cut and no
\* temporary manifest exists.
C27_Witness ==
    /\ entry.stage = "StartGUI"
    /\ entry.gui.eyecheck = 0
    /\ entry.gui.sncut = "x"
    /\ entry.message = << "The entered S/N cut is not a valid number." >>
    /\ entry.opts.sncut = NoneV
    /\ TempName \notin entry.files

\* C28: whatever the user did in the settings window with Next, Previous,
\* Tab, Shift-Tab and the radio buttons, the screen shown is one of the
\* screens from firstSetting to lastSetting, within 0..6; the spectra path
\* screen (4) is not shown while full paths is Yes, and the S/N cut screen (6)
\* is not shown while skip to eyecheck is Yes.
C28_WizardInvariant ==
    entry.stage = "StartGUI" =>
        /\ FirstSetting = 0
        /\ entry.gui.lastSetting <= 6
        /\ FirstSetting <= entry.gui.curSetting
        /\ entry.gui.curSetting <= entry.gui.lastSetting
        /\ entry.gui.curSetting = 4 => entry.gui.fullPath = 0
        /\ entry.gui.curSetting = 6 => entry.gui.eyecheck = 0

\* C28 witness: with full paths Yes and skip to eyecheck Yes the user has
\* gone on to the eyecheck screen, which was reached over the spectra path
\* screen and has become the last one, and Previous is enabled.
C28_Witness ==
    /\ entry.stage = "StartGUI"
    /\ entry.gui.fullPath = 1
    /\ entry.gui.eyecheck = 1
    /\ entry.gui.curSetting = 5
    /\ entry.gui.lastSetting = 5
    /\ entry.gui.nextButton = "disabled"
    /\ entry.gui.prevButton = "normal"

=============================================================================
